---- MODULE Spec2Model ----
(***************************************************************************)
(* Model of the link registry routes (appRoutes) over the "links" table.   *)
(* Strings are sequences of one-character strings.  The database is the   *)
(* set of stored rows; every SQL statement is one atomic step.  Redirect   *)
(* and visit handlers await two statements (lookup, then increment by id), *)
(* so each in-flight request is a process with its own position.           *)
(***************************************************************************)
EXTENDS Integers, Sequences, FiniteSets, TLC

\* ---------------------------------------------------------------- bounds
MaxId == 2
MaxCount == 2
MaxTime == 2
MaxExports == 1
Procs == {"p1", "p2"}

\* --------------------------------------------------------------- strings
\* an absent optional string; "" is never a candidate input, and JS treats
\* both undefined and "" as falsy
None == <<>>
NoUrl == "none"
Prefix == <<"b","r","e","v",".","l","y","/">>
S_ab == <<"a","b">>
S_abc == <<"a","b","c">>
S_abcdef == <<"a","b","c","d","e","f">>
S_gen == <<"n","n","n","n","n","n">>
S_ten == <<"a","b","c","d","e","f","g","h","i","j">>
S_eleven == S_ten \o <<"k">>
S_tenspace == S_ten \o <<" ">>
S_infix == <<"x">> \o Prefix \o <<"y">>

\* CLOUDFLARE_PUBLIC_URL
BaseUrl == <<"h">>
ShortUrl(c) == BaseUrl \o <<"/">> \o c

\* varchar(10) column length of links.code
CodeMaxLen == 10

\* z.string().url(): the model's candidate URLs, "bad" is not a URL
UrlInputs == {"http://a", "bad"}
IsUrl(u) == u # "bad"

\* a URL with a line feed inside: the WHATWG parser behind z.string().url()
\* removes ASCII tab/newline before parsing, so it is accepted, and the
\* string is stored as sent
UrlNL == "http://a<LF>b"
LF == "LF"
\* a code holding a line feed: "a\nb"
S_lf == <<"a", LF, "b">>
\* the characters of each candidate URL
UrlText(u) ==
  CASE u = "http://a" -> <<"h","t","t","p",":","/","/","a">>
    [] u = UrlNL -> <<"h","t","t","p",":","/","/","a",LF,"b">>
    [] OTHER -> <<"b","a","d">>

\* nanoid(6): 6 random characters of the url-safe alphabet
NanoidCodesMut == {<<"n","n","n","n","n">>, S_abcdef}
NanoidCodes == {S_gen, S_abcdef}

\* JS String.prototype.replace(pattern, '') with a string pattern:
\* removes the FIRST occurrence of pattern, wherever it is
FirstIndex(s, p) ==
  LET hits == {i \in 1..(Len(s) - Len(p) + 1) :
                 SubSeq(s, i, i + Len(p) - 1) = p}
  IN IF hits = {} THEN 0
     ELSE CHOOSE i \in hits : \A j \in hits : i <= j
ReplaceFirst(s, p) ==
  LET i == FirstIndex(s, p)
  IN IF i = 0 THEN s
     ELSE SubSeq(s, 1, i - 1) \o SubSeq(s, i + Len(p), Len(s))

\* JS truthiness of an optional string: undefined and "" are falsy
Truthy(x) == x # <<>>

\* custom_name?.replace('brev.ly/', '')
CleanCustomName(name) == ReplaceFirst(name, Prefix)

\* cleanedCustomName || inputCode || nanoid(6), with g the nanoid draw
ResolveCode(name, inputCode, g) ==
  LET cleaned == CleanCustomName(name)
  IN IF Truthy(cleaned) THEN cleaned
     ELSE IF Truthy(inputCode) THEN inputCode
     ELSE g

\* z.string().min(3).optional()
OptMin3(x) == x = None \/ Len(x) >= 3

\* varchar(10) assignment in PostgreSQL: too long is an error (22001)
\* unless the excess characters are all spaces, which are truncated
AllSpaces(s) == \A i \in 1..Len(s) : s[i] = " "
VarcharFits(s) ==
  Len(s) <= CodeMaxLen \/ AllSpaces(SubSeq(s, CodeMaxLen + 1, Len(s)))
VarcharValueMut(s) == s
VarcharValue(s) ==
  IF Len(s) <= CodeMaxLen THEN s ELSE SubSeq(s, 1, CodeMaxLen)

CodeInputs == {None, S_ab, S_abc, S_abcdef, S_eleven, S_tenspace}
NameInputs == {None, Prefix \o S_ab, Prefix \o S_abc, S_infix, Prefix, S_abc}

\* a response: status, the code it concerns, redirect target or body fields
R(op, st, code, url, short, body) ==
  [op |-> op, status |-> st, code |-> code, url |-> url, short |-> short,
   body |-> body]
NoResp == R("none", 0, None, NoUrl, None, <<>>)

VARIABLES
  links,    \* set of rows [id, code, url, created, cnt]
  nextId,   \* serial sequence of links.id
  clock,    \* now() of the database
  pc,       \* position of each in-flight redirect/visit handler
  held,     \* the row the handler's findFirst returned
  incs,     \* per id, the redirect/visit responses sent after looking it up
  resp,     \* the last response sent
  lastList, \* the last listing, while the table has not changed since
  objects,  \* the objects uploaded to the bucket, in upload order
  pend,     \* per process, the row an in-flight INSERT is writing
  snap      \* per process, the rows an in-flight export's SELECT returned

vars == <<links, nextId, clock, pc, held, incs, resp, lastList, objects, pend, snap>>

Ids == 1..MaxId
RowOf(c) == CHOOSE r \in links : r.code = c
HasCode(c) == \E r \in links : r.code = c
NoList == [page |-> 0, size |-> 0, result |-> <<>>]
\* a mutation of the table invalidates the remembered listing
ListAfter(newLinks) == IF newLinks = links THEN lastList ELSE NoList

NoHeld == [id |-> 0, url |-> NoUrl, cnt |-> 0]
NoPend == [id |-> 0, code |-> None, url |-> NoUrl, created |-> 0,
           body |-> [u |-> NoUrl, code |-> None, name |-> None]]
NoSnap == <<>>
\* z.string().min(3) on the path parameter
PathOk(c) == Len(c) >= 3
PathCodes == {S_ab, S_abc, <<"z","z","z">>}
PageInputs == {0, 1, 2}
PageSizeInputs == {9, 10}

Init ==
  /\ links = {}
  /\ nextId = 1
  /\ clock = 0
  /\ pc = [p \in Procs |-> "idle"]
  /\ held = [p \in Procs |-> NoHeld]
  /\ incs = [i \in Ids |-> 0]
  /\ resp = NoResp
  /\ lastList = NoList
  /\ objects = <<>>
  /\ pend = [p \in Procs |-> NoPend]
  /\ snap = [p \in Procs |-> NoSnap]

\* UNIQUE("code") constraint links_code_unique, checked by the insert
CodeTakenMut(c) == FALSE
CodeTaken(c) == \E r \in links : r.code = c

\* POST /api/links, from the request to the start of the INSERT: the body
\* is validated and the code resolved; the statement evaluates the column
\* defaults (nextval for id, now() for created_at) when it runs, and a
\* value too long for varchar(10) fails it there.  The row it writes
\* becomes visible only when the statement commits (InsertEnd).
CreateLink(p, u, inputCode, name, g) ==
  /\ pc[p] = "idle"
  /\ \/ /\ ~(IsUrl(u) /\ OptMin3(inputCode) /\ OptMin3(name))
        \* createLinkSchema.parse throws; Fastify's default handler answers 500
        /\ resp' = R("create", 500, None, NoUrl, None, <<>>)
        /\ UNCHANGED <<links, nextId, lastList, pc, pend>>
     \/ /\ IsUrl(u) /\ OptMin3(inputCode) /\ OptMin3(name)
        /\ LET code == ResolveCode(name, inputCode, g)
               stored == VarcharValue(code)
           IN
           \/ /\ ~VarcharFits(code)
              \* whether nextval() ran before the length error is not fixed
              /\ resp' = R("create", 500, code, NoUrl, None, <<>>)
              /\ nextId' \in {nextId, nextId + 1}
              /\ UNCHANGED <<links, lastList, pc, pend>>
           \/ /\ VarcharFits(code)
              /\ pend' = [pend EXCEPT ![p] =
                            [id |-> nextId, code |-> stored, url |-> u,
                             created |-> clock,
                             body |-> [u |-> u, code |-> inputCode, name |-> name]]]
              /\ nextId' = nextId + 1
              /\ pc' = [pc EXCEPT ![p] = "insert"]
              /\ UNCHANGED <<links, lastList, resp>>

\* POST /api/links, the INSERT commits: the unique index rejects a code
\* another committed row holds (23505, answered 400; the serial value stays
\* consumed), otherwise the row becomes visible and 201 is answered
InsertEnd(p) ==
  /\ pc[p] = "insert"
  /\ LET w == pend[p]
     IN IF CodeTaken(w.code)
        THEN /\ resp' = R("create", 400, w.code, NoUrl, None, <<>>)
             /\ UNCHANGED <<links, lastList>>
        ELSE /\ links' = links \cup {[id |-> w.id, code |-> w.code, url |-> w.url,
                                      created |-> w.created, cnt |-> 0]}
             /\ lastList' = NoList
             /\ resp' = R("create", 201, w.code, NoUrl, ShortUrl(w.code), <<w.id>>)
  /\ pc' = [pc EXCEPT ![p] = "idle"]
  /\ pend' = [pend EXCEPT ![p] = NoPend]
  /\ UNCHANGED <<nextId, clock, held, incs, objects, snap>>

\* request bodies: every combination of the candidate fields
CreateInputsAll ==
  {[u |-> u, code |-> c, name |-> n] : u \in UrlInputs, c \in CodeInputs, n \in NameInputs}
\* two representative bodies: a code, a prefixed custom name
CreateInputsFew ==
  {[u |-> "http://a", code |-> S_abc, name |-> None],
   [u |-> "http://a", code |-> None, name |-> Prefix \o S_ab]}

\* bodies exercising truncation and a plain code
CreateInputsMid ==
  {[u |-> "http://a", code |-> S_tenspace, name |-> None],
   [u |-> "http://a", code |-> S_abc, name |-> None]}

\* bodies exercising custom_name against code precedence and prefix removal
CreateInputsNames ==
  {[u |-> "http://a", code |-> None, name |-> S_infix],
   [u |-> "http://a", code |-> None, name |-> Prefix \o S_abc],
   [u |-> "http://a", code |-> S_abcdef, name |-> Prefix \o S_abc],
   [u |-> "http://a", code |-> S_abc, name |-> None],
   [u |-> "http://a", code |-> S_abc, name |-> Prefix],
   [u |-> "http://a", code |-> S_abcdef, name |-> Prefix \o S_ab]}

\* request p starts POST /api/links with body b and nanoid draw g
CreateStep(p, b, g) ==
  /\ nextId <= MaxId
  /\ CreateLink(p, b.u, b.code, b.name, g)
  /\ UNCHANGED <<clock, held, incs, objects, snap>>

\* concurrent POST /api/links requests with bodies from CI
CreateFrom(CI) ==
  \/ \E p \in Procs, b \in CI, g \in NanoidCodes : CreateStep(p, b, g)
  \/ \E p \in Procs : InsertEnd(p)

Create == CreateFrom(CreateInputsAll)
CreateFew == CreateFrom(CreateInputsFew)
CreateMid == CreateFrom(CreateInputsMid)

\* the database clock advances
Tick ==
  /\ clock < MaxTime
  /\ clock' = clock + 1
  /\ UNCHANGED <<links, nextId, pc, held, incs, resp, lastList, objects, pend, snap>>

\* access_count: sql`${links.access_count} + 1`, evaluated by the database
\* on the row's current value (h is the row findFirst returned earlier)
IncrementedCountMut(r, h) == h.cnt + 1
IncrementedCount(r, h) == r.cnt + 1

\* GET /:code (kind "redirect") and POST /api/links/:code/visit (kind
\* "visit"), first await: db.query.links.findFirst({ where: code = c })
Lookup(p, c, kind) ==
  /\ pc[p] = "idle"
  /\ \/ /\ ~PathOk(c)
        \* schema.parse throws: Fastify's default error handler answers 500
        /\ resp' = R(kind, 500, c, NoUrl, None, <<>>)
        /\ UNCHANGED <<pc, held>>
     \/ /\ PathOk(c) /\ ~HasCode(c)
        /\ resp' = R(kind, 404, c, NoUrl, None, <<>>)
        /\ UNCHANGED <<pc, held>>
     \/ /\ PathOk(c) /\ HasCode(c)
        /\ RowOf(c).cnt < MaxCount
        /\ pc' = [pc EXCEPT ![p] = kind]
        /\ held' = [held EXCEPT ![p] = [id |-> RowOf(c).id, url |-> RowOf(c).url,
                                        cnt |-> RowOf(c).cnt]]
        /\ UNCHANGED resp
  /\ UNCHANGED <<links, nextId, clock, incs, lastList, objects, pend, snap>>

Redirect ==
  \E p \in Procs, c \in PathCodes : Lookup(p, c, "redirect")
VisitLookup ==
  \E p \in Procs, c \in PathCodes : Lookup(p, c, "visit")

\* the increment's row gone: answered 404 instead
IncrementMut(p) ==
  /\ pc[p] \in {"redirect", "visit"}
  /\ IF \E r \in links : r.id = held[p].id
     THEN LET h == held[p]
              newLinks == {IF r.id = h.id THEN [r EXCEPT !.cnt = IncrementedCount(r, h)]
                           ELSE r : r \in links}
          IN /\ links' = newLinks
             /\ lastList' = ListAfter(newLinks)
             /\ incs' = [incs EXCEPT ![h.id] = @ + 1]
             /\ resp' = IF pc[p] = "redirect"
                        THEN R("redirect", 301, None, h.url, None, <<h.id>>)
                        ELSE R("visit", 200, None, NoUrl, None, <<h.id>>)
     ELSE /\ resp' = R(pc[p], 404, None, NoUrl, None, <<held[p].id>>)
          /\ UNCHANGED <<links, lastList, incs>>
  /\ pc' = [pc EXCEPT ![p] = "idle"]
  /\ held' = [held EXCEPT ![p] = NoHeld]
  /\ UNCHANGED <<nextId, clock, objects, pend, snap>>

\* second await: UPDATE links SET access_count = access_count + 1
\* WHERE id = link.id, then 301 to link.original_url / 200 {success:true}
Increment(p) ==
  /\ pc[p] \in {"redirect", "visit"}
  /\ LET h == held[p]
         newLinks == {IF r.id = h.id THEN [r EXCEPT !.cnt = IncrementedCount(r, h)]
                      ELSE r : r \in links}
     IN /\ links' = newLinks
        /\ lastList' = ListAfter(newLinks)
        /\ incs' = [incs EXCEPT ![h.id] = @ + 1]
        /\ resp' = IF pc[p] = "redirect"
                   THEN R("redirect", 301, None, h.url, None, <<h.id>>)
                   ELSE R("visit", 200, None, NoUrl, None, <<h.id>>)
  /\ pc' = [pc EXCEPT ![p] = "idle"]
  /\ held' = [held EXCEPT ![p] = NoHeld]
  /\ UNCHANGED <<nextId, clock, objects, pend, snap>>

IncrementStep == \E p \in Procs : Increment(p)

\* GET /api/links/:code
GetData(c) ==
  /\ \/ /\ ~PathOk(c)
        /\ resp' = R("data", 500, c, NoUrl, None, <<>>)
     \/ /\ PathOk(c) /\ ~HasCode(c)
        /\ resp' = R("data", 404, c, NoUrl, None, <<>>)
     \/ /\ PathOk(c) /\ HasCode(c)
        /\ LET r == RowOf(c)
           IN resp' = R("data", 200, r.code, r.url, ShortUrl(r.code),
                        <<r.id, r.cnt, r.created>>)
  /\ UNCHANGED <<links, nextId, clock, pc, held, incs, lastList, objects, pend, snap>>

DataGet == \E c \in PathCodes : GetData(c)

\* DELETE /api/links/:code: DELETE ... WHERE code = c RETURNING id
DeleteLink(c) ==
  /\ \/ /\ ~PathOk(c)
        /\ resp' = R("delete", 500, c, NoUrl, None, <<>>)
        /\ UNCHANGED <<links, lastList>>
     \/ /\ PathOk(c) /\ ~HasCode(c)
        /\ resp' = R("delete", 404, c, NoUrl, None, <<>>)
        /\ UNCHANGED <<links, lastList>>
     \/ /\ PathOk(c) /\ HasCode(c)
        /\ links' = {r \in links : r.code # c}
        /\ lastList' = NoList
        /\ resp' = R("delete", 204, c, NoUrl, None, <<>>)
  /\ UNCHANGED <<nextId, clock, pc, held, incs, objects, pend, snap>>

Delete == \E c \in PathCodes : DeleteLink(c)

\* ORDER BY created_at DESC: any order of the rows that is sorted by
\* created_at; rows with equal created_at come in an unspecified order
SortedOrders(S) ==
  {f \in [1..Cardinality(S) -> S] :
     /\ \A i, j \in 1..Cardinality(S) : i # j => f[i] # f[j]
     /\ \A i, j \in 1..Cardinality(S) : i < j => f[i].created >= f[j].created}
Min(a, b) == IF a < b THEN a ELSE b
\* .limit(pageSize).offset((page - 1) * pageSize)
Slice(f, off, lim) ==
  [k \in 1..(Min(Len(f), off + lim) - Min(Len(f), off)) |-> f[off + k]]
ListItem(r) == [id |-> r.id, code |-> r.code, url |-> r.url, cnt |-> r.cnt,
                created |-> r.created, short |-> ShortUrl(r.code)]

\* GET /api/links?page&pageSize
ListLinks(page, size) ==
  /\ \/ /\ ~(page >= 1 /\ size >= 10 /\ size <= 100)
        /\ resp' = R("list", 500, None, NoUrl, None, <<>>)
        /\ UNCHANGED lastList
     \/ /\ page >= 1 /\ size >= 10 /\ size <= 100
        /\ \E f \in SortedOrders(links) :
             LET res == [k \in 1..Len(Slice(f, (page - 1) * size, size)) |->
                           ListItem(Slice(f, (page - 1) * size, size)[k])]
             IN /\ resp' = R("list", 200, None, NoUrl, None, res)
                /\ lastList' = [page |-> page, size |-> size, result |-> res]
  /\ UNCHANGED <<links, nextId, clock, pc, held, incs, objects, pend, snap>>

List == \E pg \in PageInputs, sz \in PageSizeInputs : ListLinks(pg, sz)

\* csvHeader: one character per column title, comma separated, then '\n'
CsvHeader == <<"U", ",", "E", ",", "C", ",", "D", LF>>
\* `${original_url},${shortUrl},${access_count},${created_at.toISOString()}`
CsvRow(r) ==
  UrlText(r.url) \o <<",">> \o ShortUrl(r.code) \o <<",">> \o <<ToString(r.cnt)>>
    \o <<",">> \o <<"T", ToString(r.created)>>
\* allLinks.map(...).join('\n')
RECURSIVE JoinRows(_, _)
JoinRows(f, i) ==
  IF i > Len(f) THEN <<>>
  ELSE IF i = Len(f) THEN CsvRow(f[i])
  ELSE CsvRow(f[i]) \o <<LF>> \o JoinRows(f, i + 1)
CsvContentMut(f) == CsvHeader \o JoinRows(f, 1) \o <<LF>>
CsvContent(f) == CsvHeader \o JoinRows(f, 1)
\* `${randomUUID()}.csv`: the n-th upload draws a fresh UUID
CsvKey(n) == <<"u", ToString(n), ".", "c", "s", "v">>
\* `${env.CLOUDFLARE_PUBLIC_URL}/${fileName}`
PublicUrl(key) == BaseUrl \o <<"/">> \o key
\* r2.send(PutObjectCommand): stored and acknowledged, rejected, or stored
\* but the call fails (e.g. the response is lost)
UploadOutcomes == {"ok", "fail", "lost"}

\* POST /api/links/export/csv, first await: db.select().from(links); an
\* empty result answers 400, otherwise the rows are kept for the upload
ExportSelect(p) ==
  /\ pc[p] = "idle"
  /\ \/ /\ links = {}
        /\ resp' = R("export", 400, None, NoUrl, None, <<>>)
        /\ UNCHANGED <<pc, snap>>
     \/ /\ links # {}
        /\ Len(objects) + Cardinality({q \in Procs : pc[q] = "export"}) < MaxExports
        /\ \E f \in SortedOrders(links) : snap' = [snap EXCEPT ![p] = f]
        /\ pc' = [pc EXCEPT ![p] = "export"]
        /\ UNCHANGED resp
  /\ UNCHANGED <<links, nextId, clock, held, incs, lastList, objects, pend>>

\* POST /api/links/export/csv, second await: the CSV of the rows the SELECT
\* returned is uploaded under a fresh key with r2.send(PutObjectCommand)
ExportUpload(p, outcome) ==
  /\ pc[p] = "export"
  /\ LET key == CsvKey(Len(objects) + 1)
         obj == [key |-> key, body |-> CsvContent(snap[p])]
     IN CASE outcome = "ok" ->
               /\ objects' = Append(objects, obj)
               /\ resp' = R("export", 201, None, NoUrl, PublicUrl(key), <<>>)
          [] outcome = "fail" ->
               /\ objects' = objects
               /\ resp' = R("export", 500, None, NoUrl, None, <<>>)
          [] OTHER ->
               /\ objects' = Append(objects, obj)
               /\ resp' = R("export", 500, None, NoUrl, None, <<>>)
  /\ pc' = [pc EXCEPT ![p] = "idle"]
  /\ snap' = [snap EXCEPT ![p] = NoSnap]
  /\ UNCHANGED <<links, nextId, clock, held, incs, lastList, pend>>

Export ==
  \/ \E p \in Procs : ExportSelect(p)
  \/ \E p \in Procs, o \in UploadOutcomes : ExportUpload(p, o)

\* number of lines of a text
LineCount(t) == 1 + Cardinality({i \in 1..Len(t) : t[i] = LF})

\* bodies for the export: a URL holding a line feed and a code holding one
CreateInputsExport ==
  {[u |-> UrlNL, code |-> S_abcdef, name |-> None],
   [u |-> "http://a", code |-> S_lf, name |-> None]}

\* creation and deletion with every candidate request body
NextCreate == Create \/ Delete
SpecCreate == Init /\ [][NextCreate]_vars

\* creation with custom names and codes at advancing times, and deletion
NextNames == CreateFrom(CreateInputsNames) \/ Delete \/ Tick
SpecNames == Init /\ [][NextNames]_vars

\* concurrent lookups, increments, reads and deletions
NextAccess == CreateFew \/ Redirect \/ VisitLookup \/ IncrementStep \/ DataGet \/ Delete
SpecAccess == Init /\ [][NextAccess]_vars

\* listings interleaved with creations at equal or later timestamps
NextList == CreateFew \/ Tick \/ List \/ Delete
SpecList == Init /\ [][NextList]_vars

\* overlapping inserts next to redirects and deletions
NextLife == CreateFew \/ Redirect \/ IncrementStep \/ Delete \/ Tick
SpecLife == Init /\ [][NextLife]_vars

\* exports of the table next to creations and deletions
NextExport == CreateFrom(CreateInputsExport) \/ Export \/ Delete \/ Tick
SpecExport == Init /\ [][NextExport]_vars

\* every operation that writes links, with the reads that never do left out
NextCodes == CreateMid \/ Tick \/ Redirect \/ VisitLookup \/ IncrementStep \/ Delete
SpecCodes == Init /\ [][NextCodes]_vars

Next == CreateFew \/ Redirect \/ VisitLookup \/ IncrementStep
          \/ DataGet \/ Delete \/ List \/ Export

Spec == Init /\ [][Next]_vars
\* ====================================================================
\* Properties
\* ====================================================================

\* C1: for any existing link each GET /:code increments its access_count
\* by exactly 1 and answers 301 to the stored original_url; the counter of
\* every stored link equals the number of redirect/visit responses sent for
\* it (no lost updates under concurrent requests).
C1_Claim ==
  /\ [](\A r \in links : r.cnt = incs[r.id])
  /\ [][\A p \in Procs, c \in PathCodes :
          (Lookup(p, c, "redirect") /\ HasCode(c)) => pc'[p] = "redirect"]_vars
  /\ [][\A p \in Procs :
          (Increment(p) /\ pc[p] = "redirect" /\ \E r \in links : r.id = held[p].id)
            => /\ resp'.status = 301
               /\ \E r \in links : /\ r.id = held[p].id
                                   /\ resp'.url = r.url
                                   /\ \E r2 \in links' : r2.id = r.id /\ r2.cnt = r.cnt + 1]_vars

\* C2: GET /api/links/:code never changes the table; on an existing code it
\* returns the row's fields and short_url = base URL/code, on an absent
\* (well-formed) code it returns 404.
C2_Claim ==
  [][\A c \in PathCodes :
       GetData(c) =>
         /\ links' = links
         /\ HasCode(c) => /\ resp'.status = 200
                          /\ resp'.code = c
                          /\ resp'.url = RowOf(c).url
                          /\ resp'.body = <<RowOf(c).id, RowOf(c).cnt, RowOf(c).created>>
                          /\ resp'.short = ShortUrl(c)
         /\ (PathOk(c) /\ ~HasCode(c)) => resp'.status = 404]_vars

\* C3: two creations whose resolved codes are equal give one 201 and one
\* 400 conflict: a creation whose (stored) code is already present answers
\* 400 and leaves the table as it was; otherwise it answers 201 and adds
\* exactly one row with that code.  Never a retry with another code.  Every
\* request that passes validation thus reaches the insert, whose commit
\* decides between 201 and 400.
C3_Conflict ==
  /\ [][\A p \in Procs, b \in CreateInputsAll, g \in NanoidCodes :
          CreateStep(p, b, g) => links' = links]_vars
  /\ [][\A p \in Procs, b \in CreateInputsAll, g \in NanoidCodes :
          (CreateStep(p, b, g) /\ IsUrl(b.u) /\ OptMin3(b.code) /\ OptMin3(b.name))
            => pc'[p] = "insert"]_vars
  /\ [][\A p \in Procs :
          InsertEnd(p)
            => LET code == pend[p].code
               IN IF HasCode(code)
                  THEN resp'.status = 400 /\ links' = links
                  ELSE /\ resp'.status = 201
                       /\ resp'.code = code
                       /\ \E row \in links' : /\ row.code = code
                                              /\ links' = links \cup {row}]_vars

\* C4: no two stored links share a code and every stored code has at most
\* 10 characters, whatever operations ran.
C4_Unique ==
  /\ \A r1, r2 \in links : r1.code = r2.code => r1 = r2
  /\ \A r \in links : Len(r.code) <= 10

C4_Witness ==
  /\ Cardinality(links) = 2
  /\ \E r \in links : Len(r.code) = 10

\* C5: on every path the code submitted to storage has 3 to 10 characters;
\* a request whose code would not is answered 400 and inserts nothing.
C5_Claim ==
  [][\A p \in Procs, b \in CreateInputsAll, g \in NanoidCodes :
       (CreateStep(p, b, g) /\ IsUrl(b.u) /\ OptMin3(b.code) /\ OptMin3(b.name))
         => LET code == ResolveCode(b.name, b.code, g)
            IN \/ 3 <= Len(code) /\ Len(code) <= 10
               \/ resp'.status = 400 /\ pc'[p] = "idle" /\ links' = links]_vars
\* custom_name with a LEADING "brev.ly/" removed (the claim's reading)
StripLeadingPrefix(n) ==
  IF Len(n) >= Len(Prefix) /\ SubSeq(n, 1, Len(Prefix)) = Prefix
  THEN SubSeq(n, Len(Prefix) + 1, Len(n))
  ELSE n

\* C6: when custom_name is supplied the stored code is custom_name with a
\* leading "brev.ly/" removed (and only a leading one); otherwise, when
\* code is supplied, the stored code is exactly the supplied code.
C6_Claim ==
  [][\A p \in Procs :
       (InsertEnd(p) /\ resp'.status = 201)
         => LET b == pend[p].body
            IN /\ b.name # None => resp'.code = StripLeadingPrefix(b.name)
               /\ (b.name = None /\ b.code # None) => resp'.code = b.code]_vars

\* C7: a valid original_url with neither code nor custom_name either
\* succeeds with a 6-character code and short_url = base URL/code, or, when
\* the generated code already exists, fails with the 400 conflict and
\* inserts nothing (no retry).
C7_Generated ==
  [][\A p \in Procs :
       (InsertEnd(p) /\ pend[p].body.code = None /\ pend[p].body.name = None)
         => \/ /\ resp'.status = 201
               /\ Len(resp'.code) = 6
               /\ resp'.short = ShortUrl(resp'.code)
               /\ Cardinality(links') = Cardinality(links) + 1
            \/ /\ resp'.status = 400
               /\ HasCode(resp'.code)
               /\ links' = links]_vars

C7_Witness ==
  /\ resp.op = "create" /\ resp.status = 400 /\ resp.code = S_gen
  /\ \E r \in links : r.code = S_gen

\* C8: validation failures (malformed original_url, code or custom_name
\* shorter than 3, invalid page/pageSize, path code shorter than 3) are
\* answered with a 400-class status and leave the table unchanged.
C8_Claim ==
  [][(\/ \E p \in Procs, b \in CreateInputsAll, g \in NanoidCodes :
          CreateStep(p, b, g) /\ ~(IsUrl(b.u) /\ OptMin3(b.code) /\ OptMin3(b.name))
      \/ \E p \in Procs, c \in PathCodes, k \in {"redirect", "visit"} :
          Lookup(p, c, k) /\ ~PathOk(c)
      \/ \E c \in PathCodes : (GetData(c) \/ DeleteLink(c)) /\ ~PathOk(c)
      \/ \E pg \in PageInputs, sz \in PageSizeInputs :
          ListLinks(pg, sz) /\ ~(pg >= 1 /\ sz >= 10 /\ sz <= 100))
     => resp'.status \in 400..499 /\ links' = links]_vars

\* C9: DELETE /api/links/:code on an absent code answers 404 and changes
\* nothing; on an existing code it answers 204 and removes exactly that
\* row; afterwards every lookup of the code answers 404 until it is created
\* again.
C9_Claim ==
  /\ [][\A c \in PathCodes :
          DeleteLink(c) =>
            /\ (PathOk(c) /\ ~HasCode(c)) => resp'.status = 404 /\ links' = links
            /\ HasCode(c) => resp'.status = 204 /\ links' = links \ {RowOf(c)}]_vars
  /\ [][\A c \in PathCodes :
          (\/ \E p \in Procs, k \in {"redirect", "visit"} : Lookup(p, c, k)
           \/ GetData(c))
            /\ PathOk(c) /\ ~HasCode(c) => resp'.status = 404]_vars

\* C10: GET /api/links answers the rows sorted by created_at descending with
\* a deterministic tie-break, the slice at offset (page-1)*pageSize of at
\* most pageSize items each with short_url; the table is not changed.  Two
\* listings with the same parameters over the same table are equal.
C10_Claim ==
  [][\A pg \in PageInputs, sz \in PageSizeInputs :
       (ListLinks(pg, sz) /\ pg >= 1 /\ sz >= 10 /\ sz <= 100)
         => LET res == resp'.body
                off == (pg - 1) * sz
            IN /\ links' = links
               /\ Len(res) = Min(Cardinality(links), off + sz) - Min(Cardinality(links), off)
               /\ \A i, j \in 1..Len(res) : i < j => res[i].created >= res[j].created
               /\ \A i \in 1..Len(res) :
                    /\ res[i].short = ShortUrl(res[i].code)
                    /\ \E r \in links : ListItem(r) = res[i]
               /\ (lastList.size # 0 /\ lastList.page = pg /\ lastList.size = sz)
                    => res = lastList.result]_vars

RECURSIVE RowLineFeeds(_)
RowLineFeeds(S) ==
  IF S = {} THEN 0
  ELSE LET r == CHOOSE x \in S : TRUE
           t == UrlText(r.url) \o r.code
       IN Cardinality({i \in 1..Len(t) : t[i] = LF}) + RowLineFeeds(S \ {r})

C12_Claim ==
  /\ [](\A r \in links : r.cnt = incs[r.id])
  /\ [][\A p \in Procs, c \in PathCodes :
          (Lookup(p, c, "visit") /\ PathOk(c) /\ ~HasCode(c))
            => resp'.status = 404 /\ links' = links]_vars
  /\ [][\A p \in Procs, c \in PathCodes :
          (Lookup(p, c, "visit") /\ HasCode(c)) => pc'[p] = "visit"]_vars
  /\ [][\A p \in Procs :
          (Increment(p) /\ pc[p] = "visit" /\ \E r \in links : r.id = held[p].id)
            => /\ resp'.status = 200
               /\ resp'.url = NoUrl
               /\ \E r \in links : /\ r.id = held[p].id
                                   /\ \E r2 \in links' : r2.id = r.id /\ r2.cnt = r.cnt + 1]_vars

\* rows present before and after a step, and rows a step adds
NewRows == {r \in links' : \A r0 \in links : r0.id # r.id}

C14_Race ==
  [][\A p \in Procs :
       (Increment(p) /\ ~\E r \in links : r.id = held[p].id)
         => /\ links' = links
            /\ pc[p] = "redirect" => resp'.status = 301 /\ resp'.url = held[p].url
            /\ pc[p] = "visit" => resp'.status = 200]_vars

C14_Witness ==
  /\ resp.op \in {"redirect", "visit"} /\ resp.status \in {301, 200}
  /\ HasCode(S_abc)
  /\ ~\E r \in links : r.id = resp.body[1]
====
